---------------------------- MODULE Spec2Model ----------------------------
(***************************************************************************)
(* A model of src/main.ts (HouseViewer): the upload handler, the schema    *)
(* detection, the two transforms (renderNewFormat, renderOldFormat) with   *)
(* their numeric normalisation, and the building group they write to.      *)
(*                                                                         *)
(* Numbers.  A JavaScript number is an IEEE 754 double: the arithmetic of  *)
(* the model rounds as the program's does (to nearest, ties to even), with *)
(* both zeros, the subnormals, the infinities and NaN.  Math.atan2 is not  *)
(* computed: a rotation is kept as the direction it is taken from.  The    *)
(* coordinates of a document are numbers and its materialType and class    *)
(* are strings.                                                            *)
(*                                                                         *)
(* Left out: the camera, lights, grid and frame loop, the stats panel and  *)
(* the legend (their DOM elements are taken to exist), what dispose() of a *)
(* geometry or a material releases, and the `pitch` setting, which is      *)
(* parsed and not used.  Each object of the group carries `by`, the id of  *)
(* the handler that inserted it: a history tag the program does not keep.  *)
(***************************************************************************)
EXTENDS Integers, Sequences, FiniteSets, TLC

VARIABLES
  buildingGroup,  \* this.buildingGroup.children: the sequence of live objects
  fileInfo,       \* the text content of the .file-info element (the status)
  pending,        \* handlers suspended at `await file.text()`: id -> file
  fired,          \* number of change events that selected a file so far
  latest,         \* history: the file of the most recently fired event
  lastDone,       \* history: what the handler that resumed last did
  transforms      \* history: id of the most recent transform that ran (0: none)

vars == <<buildingGroup, fileInfo, pending, fired, latest, lastDone, transforms>>

----------------------------------------------------------------------------
(* Natural numbers of any size: sequences of 15-bit limbs, least           *)
(* significant first, without a most significant zero limb (0 is << >>).   *)

Base == 32768

IntMax(i, j) == IF i < j THEN j ELSE i
IntMin(i, j) == IF i < j THEN i ELSE j

Zeros(k) == [i \in 1..k |-> 0]

Limb(a, i) == IF i >= 1 /\ i <= Len(a) THEN a[i] ELSE 0

RECURSIVE NTrim(_)
NTrim(a) ==
  IF Len(a) > 0 /\ a[Len(a)] = 0 THEN NTrim(SubSeq(a, 1, Len(a) - 1)) ELSE a

\* the limbs of an integer 0 <= i < 2^31
NFromInt(i) == NTrim(<<i % Base, (i \div Base) % Base, i \div (Base * Base)>>)

RECURSIVE NCmpFrom(_, _, _)
NCmpFrom(a, b, i) ==
  IF i = 0 THEN 0
  ELSE IF a[i] < b[i] THEN -1
  ELSE IF a[i] > b[i] THEN 1
  ELSE NCmpFrom(a, b, i - 1)

\* -1, 0 or 1 as a < b, a = b or a > b
NCmp(a, b) ==
  IF Len(a) < Len(b) THEN -1
  ELSE IF Len(a) > Len(b) THEN 1
  ELSE NCmpFrom(a, b, Len(a))

RECURSIVE NAddFrom(_, _, _, _, _)
NAddFrom(a, b, i, carry, acc) ==
  IF i > Len(a) /\ i > Len(b) THEN (IF carry = 0 THEN acc ELSE Append(acc, carry))
  ELSE NAddFrom(a, b, i + 1, (Limb(a, i) + Limb(b, i) + carry) \div Base,
                Append(acc, (Limb(a, i) + Limb(b, i) + carry) % Base))

NAdd(a, b) == NAddFrom(a, b, 1, 0, << >>)

RECURSIVE NSubFrom(_, _, _, _, _)
NSubFrom(a, b, i, borrow, acc) ==
  IF i > Len(a) THEN NTrim(acc)
  ELSE NSubFrom(a, b, i + 1, IF a[i] - Limb(b, i) - borrow < 0 THEN 1 ELSE 0,
                Append(acc, (a[i] - Limb(b, i) - borrow + Base) % Base))

\* a - b, for a >= b
NSub(a, b) == NSubFrom(a, b, 1, 0, << >>)

RECURSIVE NMulLimbFrom(_, _, _, _, _)
NMulLimbFrom(a, d, i, carry, acc) ==
  IF i > Len(a) THEN (IF carry = 0 THEN acc ELSE Append(acc, carry))
  ELSE NMulLimbFrom(a, d, i + 1, (a[i] * d + carry) \div Base,
                    Append(acc, (a[i] * d + carry) % Base))

\* a * d, for one limb d
NMulLimb(a, d) == IF d = 0 THEN << >> ELSE NMulLimbFrom(a, d, 1, 0, << >>)

RECURSIVE NMulFrom(_, _, _, _)
NMulFrom(a, b, i, acc) ==
  IF i > Len(a) THEN acc
  ELSE IF a[i] = 0 THEN NMulFrom(a, b, i + 1, acc)
  ELSE NMulFrom(a, b, i + 1, NAdd(acc, Zeros(i - 1) \o NMulLimb(b, a[i])))

NMul(a, b) == IF b = << >> THEN << >> ELSE NMulFrom(a, b, 1, << >>)

\* a * 2^k
NShl(a, k) ==
  IF a = << >> THEN << >> ELSE Zeros(k \div 15) \o NMulLimb(a, 2 ^ (k % 15))

\* a \div 2^k
NShr(a, k) ==
  IF Len(a) <= k \div 15 THEN << >>
  ELSE NTrim([i \in 1..(Len(a) - k \div 15) |->
                (a[i + k \div 15] \div 2 ^ (k % 15))
                + (Limb(a, i + k \div 15 + 1) % 2 ^ (k % 15)) * 2 ^ (15 - (k % 15))])

\* bit k of a (bit 0 is the least significant)
NBit(a, k) == (Limb(a, k \div 15 + 1) \div 2 ^ (k % 15)) % 2

\* whether a is a multiple of 2^k
NLowZero(a, k) ==
  /\ \A i \in 1..IntMin(k \div 15, Len(a)) : a[i] = 0
  /\ Limb(a, k \div 15 + 1) % 2 ^ (k % 15) = 0

RECURSIVE BitLen(_)
BitLen(i) == IF i = 0 THEN 0 ELSE 1 + BitLen(i \div 2)

\* the number of bits of a: 0 for 0
NBitLen(a) == IF a = << >> THEN 0 ELSE (Len(a) - 1) * 15 + BitLen(a[Len(a)])

\* the number of trailing zero bits of a # 0
RECURSIVE NCtzFrom(_, _)
NCtzFrom(a, k) == IF NBit(a, k) = 1 THEN k ELSE NCtzFrom(a, k + 1)

RECURSIVE NZeroLimbs(_, _)
NZeroLimbs(a, i) == IF a[i] # 0 THEN i - 1 ELSE NZeroLimbs(a, i + 1)

NCtz(a) == NCtzFrom(a, 15 * NZeroLimbs(a, 1))

RECURSIVE NDivLimbFrom(_, _, _, _, _)
NDivLimbFrom(a, d, i, rem, acc) ==
  IF i = 0 THEN [q |-> NTrim(acc), r |-> NFromInt(rem)]
  ELSE NDivLimbFrom(a, d, i - 1, (rem * Base + a[i]) % d,
                    <<(rem * Base + a[i]) \div d>> \o acc)

\* long division, a bit at a time: st is [i, r, q] with i the next bit of a
\* to bring down, r the remainder and q the quotient so far
NDivBit(b, st, rem) ==
  IF NCmp(rem, b) >= 0
    THEN [i |-> st.i - 1, r |-> NSub(rem, b), q |-> NAdd(NMulLimb(st.q, 2), <<1>>)]
    ELSE [i |-> st.i - 1, r |-> rem, q |-> NMulLimb(st.q, 2)]

RECURSIVE NDivBits(_, _, _, _)
NDivBits(a, b, lo, st) ==
  IF st.i < lo THEN st
  ELSE NDivBits(a, b, lo,
                NDivBit(b, st, NAdd(NMulLimb(st.r, 2), NFromInt(NBit(a, st.i)))))

RECURSIVE NDivLimbs(_, _, _)
NDivLimbs(a, b, st) ==
  IF st.i < 0 THEN st ELSE NDivLimbs(a, b, NDivBits(a, b, st.i - (st.i % 15), st))

\* quotient q and remainder r of a by b # 0
NDivMod(a, b) ==
  IF Len(b) = 1 THEN NDivLimbFrom(a, b[1], Len(a), 0, << >>)
  ELSE NDivLimbs(a, b, [i |-> NBitLen(a) - 1, r |-> << >>, q |-> << >>])

\* the square root, a bit at a time: st is [p, r, q] with 2^p the next bit
\* to try, r what is left of a and q the root so far
NSqrtBit(st, t) ==
  IF NCmp(st.r, t) >= 0
    THEN [p |-> st.p - 2, r |-> NSub(st.r, t),
          q |-> NAdd(NShr(st.q, 1), NShl(<<1>>, st.p))]
    ELSE [p |-> st.p - 2, r |-> st.r, q |-> NShr(st.q, 1)]

RECURSIVE NSqrtBits(_, _)
NSqrtBits(lo, st) ==
  IF st.p < lo THEN st
  ELSE NSqrtBits(lo, NSqrtBit(st, NAdd(st.q, NShl(<<1>>, st.p))))

RECURSIVE NSqrtChunks(_)
NSqrtChunks(st) ==
  IF st.p < 0 THEN st ELSE NSqrtChunks(NSqrtBits(IntMax(0, st.p - 14), st))

\* q the integer square root of a and r = a - q * q
NSqrt(a) ==
  IF a = << >> THEN [p |-> -2, r |-> << >>, q |-> << >>]
  ELSE NSqrtChunks([p |-> 2 * ((NBitLen(a) - 1) \div 2), r |-> a, q |-> << >>])

----------------------------------------------------------------------------
(* JavaScript numbers: IEEE 754 doubles.  A finite double is               *)
(* [c |-> "fin", s, m, e], the value s * m * 2^e with s the sign (1 or -1), *)
(* m an odd natural number below 2^53 and e >= -1074, or m = 0 and e = 0   *)
(* for the zero of sign s; the infinities are [c |-> "inf", s] and NaN is  *)
(* [c |-> "nan"].  Every operation rounds its exact result to the nearest  *)
(* double, ties to even.                                                   *)

Fin(s, m, e) == [c |-> "fin", s |-> s, m |-> m, e |-> e]
Zero(s) == Fin(s, << >>, 0)
Inf(s) == [c |-> "inf", s |-> s, m |-> << >>, e |-> 0]

NaN == [c |-> "nan", s |-> 1, m |-> << >>, e |-> 0]
Infinity == Inf(1)
NegInfinity == Inf(-1)

IsNumber(a) == a.c \in {"fin", "inf", "nan"}
IsNaN(a) == a.c = "nan"
IsFinite(a) == a.c = "fin"
IsZero(a) == a.c = "fin" /\ a.m = << >>

\* s * m * 2^e with the trailing zero bits of m moved to the exponent
Canon(s, m, e) ==
  IF m = << >> THEN Zero(s) ELSE Fin(s, NShr(m, NCtz(m)), e + NCtz(m))

\* a rounded magnitude q * 2^e: Infinity from 2^1024 on
Ranged(s, q, e) == IF NBitLen(q) + e > 1024 THEN Inf(s) ELSE Canon(s, q, e)

\* q, or q + 1 if the bits dropped from m are more than half a unit, or
\* half a unit and q is odd
RoundEven(m, q, shift, sticky) ==
  IF NBit(m, shift - 1) = 1 /\ (sticky \/ ~NLowZero(m, shift - 1) \/ NBit(q, 0) = 1)
    THEN NAdd(q, <<1>>) ELSE q

RoundShift(s, m, e, sticky, shift) ==
  IF shift <= 0 THEN Ranged(s, m, e)
  ELSE Ranged(s, RoundEven(m, NShr(m, shift), shift, sticky), e + shift)

\* the double nearest to s * (m + d) * 2^e, where 0 <= d < 1 and d > 0 iff
\* sticky: 53 bits are kept, fewer below 2^-1022
Round(s, m, e, sticky) ==
  RoundShift(s, m, e, sticky, IntMax(NBitLen(m) - 53, -1074 - e))

\* the double of an integer -2^31 < i < 2^31
Int2Num(i) == IF i < 0 THEN Canon(-1, NFromInt(-i), 0) ELSE Canon(1, NFromInt(i), 0)

Neg(a) == IF IsNaN(a) THEN NaN ELSE [a EXCEPT !.s = -a.s]

\* the position of the leading bit of a finite a # 0
Top(a) == NBitLen(a.m) + a.e

\* -1, 0, 1 as |a| < |b|, |a| = |b|, |a| > |b|, for finite a and b # 0
MagCmp(a, b) ==
  IF Top(a) < Top(b) THEN -1
  ELSE IF Top(a) > Top(b) THEN 1
  ELSE NCmp(NShl(a.m, a.e - IntMin(a.e, b.e)), NShl(b.m, b.e - IntMin(a.e, b.e)))

\* the sum of finite a and b # 0: exact, then rounded
AddMag(a, b, x, y, e) ==
  IF a.s = b.s THEN Round(a.s, NAdd(x, y), e, FALSE)
  ELSE IF NCmp(x, y) > 0 THEN Round(a.s, NSub(x, y), e, FALSE)
  ELSE IF NCmp(x, y) < 0 THEN Round(b.s, NSub(y, x), e, FALSE)
  ELSE Zero(1)

\* a + b for |b| below 2^(a.e - 60): b only tells which way to round
AddTiny(a, b) ==
  IF a.s = b.s THEN Round(a.s, NShl(a.m, 60), a.e - 60, TRUE)
  ELSE Round(a.s, NSub(NShl(a.m, 60), <<1>>), a.e - 60, TRUE)

AddFin(a, b) ==
  IF IsZero(a) /\ IsZero(b) THEN Zero(IF a.s = -1 /\ b.s = -1 THEN -1 ELSE 1)
  ELSE IF IsZero(a) THEN b
  ELSE IF IsZero(b) THEN a
  ELSE IF Top(b) <= a.e - 60 THEN AddTiny(a, b)
  ELSE IF Top(a) <= b.e - 60 THEN AddTiny(b, a)
  ELSE AddMag(a, b, NShl(a.m, a.e - IntMin(a.e, b.e)), NShl(b.m, b.e - IntMin(a.e, b.e)),
              IntMin(a.e, b.e))

NumAdd(a, b) ==
  IF IsNaN(a) \/ IsNaN(b) THEN NaN
  ELSE IF a.c = "inf" /\ b.c = "inf" THEN (IF a.s = b.s THEN a ELSE NaN)
  ELSE IF a.c = "inf" THEN a
  ELSE IF b.c = "inf" THEN b
  ELSE AddFin(a, b)

NumMul(a, b) ==
  IF IsNaN(a) \/ IsNaN(b) THEN NaN
  ELSE IF a.c = "inf" \/ b.c = "inf"
    THEN (IF IsZero(a) \/ IsZero(b) THEN NaN ELSE Inf(a.s * b.s))
  ELSE IF IsZero(a) \/ IsZero(b) THEN Zero(a.s * b.s)
  ELSE Round(a.s * b.s, NMul(a.m, b.m), a.e + b.e, FALSE)

\* the quotient of finite a and b # 0 from the integer quotient qr of
\* a.m * 2^k by b.m
DivRound(a, b, k, qr) == Round(a.s * b.s, qr.q, a.e - b.e - k, qr.r # << >>)

DivShift(a, b, k) == DivRound(a, b, k, NDivMod(NShl(a.m, k), b.m))

DivFin(a, b) ==
  IF b.m = <<1>> THEN Round(a.s * b.s, a.m, a.e - b.e, FALSE)
  ELSE DivShift(a, b, IntMax(0, 56 + NBitLen(b.m) - NBitLen(a.m)))

NumDiv(a, b) ==
  IF IsNaN(a) \/ IsNaN(b) THEN NaN
  ELSE IF a.c = "inf" THEN (IF b.c = "inf" THEN NaN ELSE Inf(a.s * b.s))
  ELSE IF b.c = "inf" THEN Zero(a.s * b.s)
  ELSE IF IsZero(b) THEN (IF IsZero(a) THEN NaN ELSE Inf(a.s * b.s))
  ELSE IF IsZero(a) THEN Zero(a.s * b.s)
  ELSE DivFin(a, b)

\* the square root of a finite a > 0 from the integer square root of
\* a.m * 2^k, where a.e - k is even
SqrtRound(a, k, qr) == Round(1, qr.q, (a.e - k) \div 2, qr.r # << >>)

SqrtShift(a, k) == SqrtRound(a, k, NSqrt(NShl(a.m, k)))

SqrtEven(a, k) == SqrtShift(a, IF (a.e - k) % 2 = 0 THEN k ELSE k + 1)

MathSqrt(a) ==
  IF IsNaN(a) THEN NaN
  ELSE IF IsZero(a) THEN a
  ELSE IF a.s = -1 THEN NaN
  ELSE IF a.c = "inf" THEN a
  ELSE SqrtEven(a, IntMax(0, 110 - NBitLen(a.m)))

\* the sign of a number that is not NaN: 0 for both zeros
SignOf(a) == IF IsZero(a) THEN 0 ELSE a.s

\* a < b on numbers
NumLess(a, b) ==
  IF IsNaN(a) \/ IsNaN(b) THEN FALSE
  ELSE IF SignOf(a) # SignOf(b) THEN SignOf(a) < SignOf(b)
  ELSE IF SignOf(a) = 0 THEN FALSE
  ELSE IF a.c = "inf" \/ b.c = "inf"
    THEN (IF a.c = b.c THEN FALSE ELSE IF a.s = 1 THEN b.c = "inf" ELSE a.c = "inf")
  ELSE a.s * MagCmp(a, b) < 0

\* Math.min and Math.max of two numbers: -0 is below +0
MathMin(a, b) ==
  IF IsNaN(a) \/ IsNaN(b) THEN NaN
  ELSE IF NumLess(b, a) THEN b
  ELSE IF NumLess(a, b) THEN a
  ELSE IF b.s = -1 THEN b ELSE a

MathMax(a, b) ==
  IF IsNaN(a) \/ IsNaN(b) THEN NaN
  ELSE IF NumLess(a, b) THEN b
  ELSE IF NumLess(b, a) THEN a
  ELSE IF b.s = 1 THEN b ELSE a

MathAbs(a) == IF IsNaN(a) THEN NaN ELSE [a EXCEPT !.s = 1]

----------------------------------------------------------------------------
(* JavaScript values and operators.  Besides the numbers a value is a      *)
(* function or an object (both reached only through Object.prototype) or a *)
(* string made by `+` from the strings of two values.                      *)

Fn(name) == [c |-> "function", name |-> name]
Obj(name) == [c |-> "object", name |-> name]
Hex(name) == [c |-> "number", name |-> name]
Material(color) == [c |-> "material", name |-> color]
Undefined == [c |-> "undefined", name |-> ""]
Str(a, b) == [c |-> "string", parts |-> <<a, b>>]

\* ToNumber: the string of a function or of Object.prototype, and any string
\* that starts with it, is not a numeric literal
ToNumber(a) == IF IsNumber(a) THEN a ELSE NaN

\* a + b: the sum of two numbers, or else the concatenation of two strings
Add(a, b) == IF IsNumber(a) /\ IsNumber(b) THEN NumAdd(a, b) ELSE Str(a, b)

Sub(a, b) == NumAdd(ToNumber(a), Neg(ToNumber(b)))
Mul(a, b) == NumMul(ToNumber(a), ToNumber(b))
Div(a, b) == NumDiv(ToNumber(a), ToNumber(b))

\* a < b, where one of a and b is a number
Less(a, b) == NumLess(ToNumber(a), ToNumber(b))

\* a <= b
LessEq(a, b) == Less(a, b) \/ (~IsNaN(ToNumber(a)) /\ ~IsNaN(ToNumber(b)) /\ ~Less(b, a))

\* the number a decimal literal n/d denotes, for integers n and d > 0
Rat(n, d) == NumDiv(Int2Num(n), Int2Num(d))

\* JavaScript truthiness: 0, -0 and NaN are falsy, functions and objects
\* truthy
Truthy(a) == IF IsNumber(a) THEN ~IsNaN(a) /\ ~IsZero(a) ELSE a.c # "undefined"

\* a || b
OrElse(a, b) == IF Truthy(a) THEN a ELSE b

\* a ?? b
Coalesce(a, b) == IF a.c = "undefined" THEN b ELSE a

\* the property `key` that every plain object inherits from Object.prototype
ObjectPrototype(key) ==
  CASE key = "constructor" -> Fn("Object")
    [] key \in {"toString", "toLocaleString", "valueOf", "hasOwnProperty",
                "isPrototypeOf", "propertyIsEnumerable", "__defineGetter__",
                "__defineSetter__", "__lookupGetter__", "__lookupSetter__"} -> Fn(key)
    [] key = "__proto__" -> Obj("Object.prototype")
    [] OTHER -> Undefined

----------------------------------------------------------------------------
(* Parsed JSON values.                                                     *)
(* A top-level value is [type, project_id, records, walls]; a field is     *)
(* [kind, items] with kind "absent" (undefined), "scalar" (present, not an *)
(* array) or "array".  A current-schema record is [materialType, settings, *)
(* coordinates_real_world] (materialType "" and settings FALSE when the    *)
(* field is missing); a legacy wall is [class, hasBbox, bbox, hasCenter,   *)
(* center].  A point is a pair of numbers.                                 *)

Absent == [kind |-> "absent", items |-> <<>>]
Scalar == [kind |-> "scalar", items |-> <<>>]
Arr(s) == [kind |-> "array", items |-> s]

\* Array.isArray(v) for a field value; `v && Array.isArray(v)` is the same
\* test, since every array is truthy
IsArray(v) == v.kind = "array"

\* const SCALE = 1 / 12
SCALE == Rat(1, 12)

\* MATERIAL_COLORS[mt] ?? MATERIAL_COLORS.default: the table is a plain
\* object, so a key it does not have is looked up in Object.prototype
MATERIAL_COLORS(mt) ==
  CASE mt = "roof_system"   -> Hex("f97316")
    [] mt = "eave_length"   -> Hex("22d3ee")
    [] mt = "ridge_length"  -> Hex("a855f7")
    [] mt = "hip_length"    -> Hex("fbbf24")
    [] mt = "valley_length" -> Hex("60a5fa")
    [] mt = "gable_length"  -> Hex("4ade80")
    [] mt = "default"       -> Hex("ffffff")
    [] OTHER                -> Coalesce(ObjectPrototype(mt), Hex("ffffff"))

\* ELEVATIONS[mt] ?? ELEVATIONS.default
ELEVATIONS(mt) ==
  CASE mt = "roof_system"   -> Int2Num(0)
    [] mt = "eave_length"   -> Rat(5, 100)
    [] mt = "valley_length" -> Neg(Rat(5, 100))
    [] mt = "hip_length"    -> Rat(15, 100)
    [] mt = "ridge_length"  -> Rat(3, 10)
    [] mt = "gable_length"  -> Rat(1, 10)
    [] mt = "default"       -> Int2Num(0)
    [] OTHER                -> Coalesce(ObjectPrototype(mt), Int2Num(0))

\* this.wallMaterials[class] || this.wallMaterials.default: a
\* MeshStandardMaterial is kept as its colour; the table is a plain object
wallMaterials(class) ==
  CASE class = "perimeter_wall"  -> Material("ef4444")
    [] class = "interior_wall"   -> Material("3b82f6")
    [] class = "foundation_wall" -> Material("64748b")
    [] class = "knee_wall"       -> Material("f59e0b")
    [] class = "default"         -> Material("ffffff")
    [] OTHER                     -> OrElse(ObjectPrototype(class), Material("ffffff"))

\* The status strings written to .file-info
LoadingStatus(name) == [msg |-> "Loading: <name>...", arg |-> name, n |-> 0]
UnrecognisedStatus == [msg |-> "Error: Unrecognised JSON format.", arg |-> "", n |-> 0]
ParseErrorStatus == [msg |-> "Error: Could not parse JSON file.", arg |-> "", n |-> 0]
ProjectStatus(id, n) == [msg |-> "Project <id> - <n> records loaded", arg |-> id, n |-> n]
AppliedStatus(name) == [msg |-> "Applied: <name>", arg |-> name, n |-> 0]
InitialStatus == [msg |-> "", arg |-> "", n |-> 0]

----------------------------------------------------------------------------
(* clearScene: dispose of and remove children[0] until the group is empty. *)
(* It returns [group, threw]: the children left when it returned or threw. *)

\* lines 361-365: m.dispose() of child.material throws a TypeError when the
\* material is not a THREE.Material.  The meshes of renderPolygon and
\* renderLine have a material made by `new`; the mesh of a wall has the
\* value that the lookup in wallMaterials gave.
disposes(child) == child.prim # "Box" \/ child.material.c = "material"

RECURSIVE clearScene(_)
clearScene(children) ==
  IF Len(children) = 0 THEN [group |-> children, threw |-> FALSE]
  ELSE IF ~disposes(Head(children)) THEN [group |-> children, threw |-> TRUE]
  ELSE clearScene(Tail(children))

----------------------------------------------------------------------------
(* renderNewFormat and its helpers.  A transform returns                   *)
(* [group, fileInfo, threw]: the children of the building group and the    *)
(* status when it returned or threw.                                       *)

\* lines 171-177: the bounds loops; rec.coordinates_real_world.forEach
\* throws a TypeError when the field is undefined
RECURSIVE pointBounds(_, _, _)
pointBounds(pts, i, b) ==
  IF i > Len(pts) THEN b
  ELSE pointBounds(pts, i + 1,
         [b EXCEPT !.minX = MathMin(b.minX, pts[i][1]),
                   !.maxX = MathMax(b.maxX, pts[i][1]),
                   !.minY = MathMin(b.minY, pts[i][2]),
                   !.maxY = MathMax(b.maxY, pts[i][2])])

RECURSIVE recordBounds(_, _, _)
recordBounds(records, i, b) ==
  IF i > Len(records) \/ b.threw THEN b
  ELSE IF ~IsArray(records[i].coordinates_real_world)
       THEN [b EXCEPT !.threw = TRUE]
       ELSE recordBounds(records, i + 1,
              pointBounds(records[i].coordinates_real_world.items, 1, b))

EmptyBounds ==
  [threw |-> FALSE, minX |-> Infinity, maxX |-> NegInfinity,
   minY |-> Infinity, maxY |-> NegInfinity]

\* toV3([x, y], z) == Vector3((x - cx) * SCALE, z, (y - cy) * SCALE)
toV3(p, z, cx, cy) == <<Mul(Sub(p[1], cx), SCALE), z, Mul(Sub(p[2], cy), SCALE)>>

\* renderPolygon: the footprint mesh and its wireframe border
renderPolygon(pts, cx, cy, color, baseElev, children, tag) ==
  LET shape == [i \in 1..Len(pts) |->
                  <<Mul(Sub(pts[i][1], cx), SCALE), Mul(Sub(pts[i][2], cy), SCALE)>>]
      mesh  == [prim |-> "Polygon", shape |-> shape, y |-> baseElev,
                color |-> color, by |-> tag]
      edges == [prim |-> "PolygonEdges", shape |-> shape,
                y |-> Add(baseElev, Rat(1, 100)), color |-> Hex("ffffff"), by |-> tag]
  IN  Append(Append(children, mesh), edges)

\* new Vector3().subVectors(b, a)
subVectors(b, a) == <<Sub(b[1], a[1]), Sub(b[2], a[2]), Sub(b[3], a[3])>>

\* dir.length(): Math.sqrt(x * x + y * y + z * z)
length(dir) ==
  MathSqrt(Add(Add(Mul(dir[1], dir[1]), Mul(dir[2], dir[2])), Mul(dir[3], dir[3])))

\* a.lerp(b, alpha): a += (b - a) * alpha, component by component
lerp(a, b, alpha) == [k \in 1..3 |-> Add(a[k], Mul(Sub(b[k], a[k]), alpha))]

\* lines 284-300: the box of a line of direction dir and length len; the
\* rotation -atan2(dir.z, dir.x) is kept as <<dir.x, dir.z>>
lineMesh(a, b, dir, len, mid, thickness, height, color, tag) ==
  [prim |-> "LineSegment", from |-> a, to |-> b, length |-> len,
   height |-> height, thickness |-> thickness,
   position |-> <<mid[1], Add(mid[2], Div(height, Int2Num(2))), mid[3]>>,
   dir |-> <<dir[1], dir[3]>>, color |-> color, by |-> tag]

\* lines 281-300, given dir and its length
renderLineOf(a, b, dir, len, color, type, children, tag) ==
  IF Less(len, Rat(1, 1000)) THEN children
  ELSE Append(children,
              lineMesh(a, b, dir, len, lerp(a, b, Rat(1, 2)),
                       IF type = "ridge_length" THEN Rat(25, 100) ELSE Rat(15, 100),
                       IF type = "ridge_length" THEN Rat(3, 10) ELSE Rat(12, 100),
                       color, tag))

\* lines 280-281, given dir
renderLineAlong(a, b, dir, color, type, children, tag) ==
  renderLineOf(a, b, dir, length(dir), color, type, children, tag)

\* renderLine: a thin box between a and b, unless they are closer than 0.001
renderLine(a, b, color, type, children, tag) ==
  renderLineAlong(a, b, subVectors(b, a), color, type, children, tag)

\* lines 185-207: the callback of records.forEach for one record
renderRecord(rec, cx, cy, children, tag) ==
  LET pts == rec.coordinates_real_world.items
      mt  == IF rec.materialType = "" THEN "default" ELSE rec.materialType
  IN  IF ~IsArray(rec.coordinates_real_world) \/ Len(pts) = 0
        THEN [group |-> children, threw |-> FALSE]
      ELSE IF ~rec.settings                 \* rec.settings.pitch: TypeError
        THEN [group |-> children, threw |-> TRUE]
      ELSE IF Len(pts) >= 3
        THEN [group |-> renderPolygon(pts, cx, cy, MATERIAL_COLORS(mt), ELEVATIONS(mt),
                                      children, tag),
              threw |-> FALSE]
      ELSE IF Len(pts) = 2
        THEN [group |-> renderLine(toV3(pts[1], ELEVATIONS(mt), cx, cy),
                                   toV3(pts[2], ELEVATIONS(mt), cx, cy),
                                   MATERIAL_COLORS(mt), mt, children, tag),
              threw |-> FALSE]
      ELSE [group |-> children, threw |-> FALSE]

RECURSIVE renderRecords(_, _, _, _, _, _)
renderRecords(records, i, cx, cy, children, tag) ==
  IF i > Len(records) THEN [group |-> children, threw |-> FALSE]
  ELSE LET r == renderRecord(records[i], cx, cy, children, tag)
       IN  IF r.threw THEN r
           ELSE renderRecords(records, i + 1, cx, cy, r.group, tag)

\* (min + max) / 2, the centre of lines 178-179 and 328-329
centre(min, max) == Div(Add(min, max), Int2Num(2))

\* lines 209-230: after the record loop; an exception thrown in the loop
\* leaves the handler's status as it was
renderNewDone(data, r, info) ==
  IF r.threw THEN [group |-> r.group, fileInfo |-> info, threw |-> TRUE]
  ELSE [group |-> r.group,
        fileInfo |-> ProjectStatus(data.project_id, Len(data.records.items)),
        threw |-> FALSE]

\* lines 178-207: the centre and the record loop, given the bounds b
renderNewBounded(data, b, cleared, info, tag) ==
  IF b.threw THEN [group |-> cleared, fileInfo |-> info, threw |-> TRUE]
  ELSE renderNewDone(data,
         renderRecords(data.records.items, 1, centre(b.minX, b.maxX),
                       centre(b.minY, b.maxY), cleared, tag),
         info)

\* lines 167-231, on the cleared group
renderNewCleared(data, cleared, info, tag) ==
  IF Len(data.records.items) = 0
    THEN [group |-> cleared, fileInfo |-> info, threw |-> FALSE]
  ELSE renderNewBounded(data, recordBounds(data.records.items, 1, EmptyBounds),
                        cleared, info, tag)

\* line 165: an exception of clearScene leaves the transform
renderNewFormat(data, children, info, tag) ==
  IF clearScene(children).threw
    THEN [group |-> clearScene(children).group, fileInfo |-> info, threw |-> TRUE]
  ELSE renderNewCleared(data, clearScene(children).group, info, tag)

----------------------------------------------------------------------------
(* renderOldFormat and its helpers *)

\* lines 320-326: w.bbox.x1 throws a TypeError when bbox is undefined
RECURSIVE wallBounds(_, _, _)
wallBounds(walls, i, b) ==
  IF i > Len(walls) \/ b.threw THEN b
  ELSE IF ~walls[i].hasBbox THEN [b EXCEPT !.threw = TRUE]
  ELSE LET w == walls[i].bbox
       IN  wallBounds(walls, i + 1,
             [b EXCEPT !.minX = MathMin(MathMin(b.minX, w.x1), w.x2),
                       !.maxX = MathMax(MathMax(b.maxX, w.x1), w.x2),
                       !.minY = MathMin(MathMin(b.minY, w.y1), w.y2),
                       !.maxY = MathMax(MathMax(b.maxY, w.y1), w.y2)])

\* const sc = 50 / size
scaleOld(size) == Div(Int2Num(50), size)

\* const wallH = 2.5
wallH == Rat(5, 2)

\* lines 334-342: the callback of walls.forEach for one wall; w.center.x
\* throws a TypeError when center is undefined, before the mesh is added
renderWall(w, cx, cy, sc, children, tag) ==
  LET width == OrElse(Mul(MathAbs(Sub(w.bbox.x2, w.bbox.x1)), sc), Rat(1, 10))
      depth == OrElse(Mul(MathAbs(Sub(w.bbox.y2, w.bbox.y1)), sc), Rat(1, 10))
      mesh  == [prim |-> "Box", width |-> width, height |-> wallH, depth |-> depth,
                position |-> <<Mul(Sub(w.center.x, cx), sc),
                               Div(wallH, Int2Num(2)),
                               Mul(Sub(w.center.y, cy), sc)>>,
                class |-> w.class, material |-> wallMaterials(w.class), by |-> tag]
  IN  IF ~w.hasCenter THEN [group |-> children, threw |-> TRUE]
      ELSE [group |-> Append(children, mesh), threw |-> FALSE]

RECURSIVE renderWalls(_, _, _, _, _, _, _)
renderWalls(walls, i, cx, cy, sc, children, tag) ==
  IF i > Len(walls) THEN [group |-> children, threw |-> FALSE]
  ELSE LET r == renderWall(walls[i], cx, cy, sc, children, tag)
       IN  IF r.threw THEN r
           ELSE renderWalls(walls, i + 1, cx, cy, sc, r.group, tag)

\* const size = Math.max(maxX - minX, maxY - minY)
sizeOld(b) == MathMax(Sub(b.maxX, b.minX), Sub(b.maxY, b.minY))

\* lines 344-353: after the wall loop
renderOldDone(fileName, r, info) ==
  IF r.threw THEN [group |-> r.group, fileInfo |-> info, threw |-> TRUE]
  ELSE [group |-> r.group, fileInfo |-> AppliedStatus(fileName), threw |-> FALSE]

\* lines 328-342: the centre, the scale and the wall loop, given the bounds b
renderOldBounded(data, fileName, b, cleared, info, tag) ==
  IF b.threw THEN [group |-> cleared, fileInfo |-> info, threw |-> TRUE]
  ELSE renderOldDone(fileName,
         renderWalls(data.walls.items, 1, centre(b.minX, b.maxX),
                     centre(b.minY, b.maxY), scaleOld(sizeOld(b)), cleared, tag),
         info)

\* lines 317-353, on the cleared group
renderOldCleared(data, fileName, cleared, info, tag) ==
  IF Len(data.walls.items) = 0
    THEN [group |-> cleared, fileInfo |-> info, threw |-> FALSE]
  ELSE renderOldBounded(data, fileName, wallBounds(data.walls.items, 1, EmptyBounds),
                        cleared, info, tag)

\* line 315: an exception of clearScene leaves the transform
renderOldFormat(data, fileName, children, info, tag) ==
  IF clearScene(children).threw
    THEN [group |-> clearScene(children).group, fileInfo |-> info, threw |-> TRUE]
  ELSE renderOldCleared(data, fileName, clearScene(children).group, info, tag)

----------------------------------------------------------------------------
(* handleFileUpload.  A file is [name, text]; its text is [wellFormed,     *)
(* value]: JSON.parse throws a SyntaxError on a text that is not JSON and  *)
(* returns the value the text denotes otherwise.                           *)

JSONparse(text) == [threw |-> ~text.wellFormed, value |-> text.value]

\* lines 148-154: the format detection.  Reading `.records` of null throws a
\* TypeError; of a number, string, boolean or array it yields undefined.
detect(data) ==
  IF data.type = "null" THEN "TypeError"
  ELSE IF IsArray(data.records) THEN "CurrentRecords"
  ELSE IF IsArray(data.walls) THEN "LegacyWalls"
  ELSE "Unrecognized"

\* lines 148-154: the branches on the parsed value
dispatch(data, fileName, children, info, tag) ==
  IF detect(data) = "TypeError"
    THEN [group |-> children, fileInfo |-> info, threw |-> TRUE]
  ELSE IF detect(data) = "CurrentRecords"
    THEN renderNewFormat(data, children, info, tag)
  ELSE IF detect(data) = "LegacyWalls"
    THEN renderOldFormat(data, fileName, children, info, tag)
  ELSE [group |-> children, fileInfo |-> UnrecognisedStatus, threw |-> FALSE]

\* lines 145-154: the try block after the awaited read
tryBlock(file, children, info, tag) ==
  IF JSONparse(file.text).threw
    THEN [group |-> children, fileInfo |-> info, threw |-> TRUE]
  ELSE dispatch(JSONparse(file.text).value, file.name, children, info, tag)

\* a mutant of catchBlock: the scene is cleared when an error is reported
catchBlockClears(r) == [group |-> <<>>, fileInfo |-> ParseErrorStatus, threw |-> FALSE]

\* lines 155-158: the catch block
catchBlock(r) == [group |-> r.group, fileInfo |-> ParseErrorStatus, threw |-> FALSE]

\* lines 143-158: try/catch around the outcome r of the try block
tryCatch(r) == IF r.threw THEN catchBlock(r) ELSE r

\* lines 143-158: the handler from the point where file.text() has resolved
resumeUpload(file, children, info, tag) ==
  tryCatch(tryBlock(file, children, info, tag))

\* whether the handler of this file calls a transform
RunsTransform(file) ==
  /\ ~JSONparse(file.text).threw
  /\ detect(JSONparse(file.text).value) \in {"CurrentRecords", "LegacyWalls"}

----------------------------------------------------------------------------
(* Bounds of the model *)

MaxUploads == 3       \* change events with a file, per behaviour of Spec
MaxPending == 2       \* handlers suspended at the read at one time, in Spec
MaxSeqUploads == 2    \* change events with a file, per behaviour of SpecSeq
MaxWalls == 2         \* walls per legacy document of OldFiles
MaxPts == 3           \* points per record of NewFiles
MaxContext == 1       \* further records around the record of each NewFiles document

----------------------------------------------------------------------------
(* The files a user may select *)

Pt(x, y) == <<Int2Num(x), Int2Num(y)>>

Rec(mt, settings, coords) ==
  [materialType |-> mt, settings |-> settings, coordinates_real_world |-> coords]

NumWall(class, x1, y1, x2, y2, cx, cy) ==
  [class |-> class, hasBbox |-> TRUE,
   bbox |-> [x1 |-> x1, y1 |-> y1, x2 |-> x2, y2 |-> y2],
   hasCenter |-> TRUE, center |-> [x |-> cx, y |-> cy]]

Wall(class, x1, y1, x2, y2, cx, cy) ==
  NumWall(class, Int2Num(x1), Int2Num(y1), Int2Num(x2), Int2Num(y2), cx, cy)

NoCenter(w) == [w EXCEPT !.hasCenter = FALSE]

Json(type, id, records, walls) ==
  [wellFormed |-> TRUE,
   value |-> [type |-> type, project_id |-> id, records |-> records, walls |-> walls]]

NotJson == [Json("null", "undefined", Absent, Absent) EXCEPT !.wellFormed = FALSE]

File(name, text) == [name |-> name, text |-> text]

RoofPanel == Rec("roof_system", TRUE, Arr(<<Pt(0, 0), Pt(240, 0), Pt(240, 120)>>))
Ridge == Rec("ridge_length", TRUE, Arr(<<Pt(0, 60), Pt(120, 60)>>))

WallA == Wall("perimeter_wall", 0, 0, 10, 0, Int2Num(5), Int2Num(0))
WallB == Wall("interior_wall", 10, 0, 10, 8, Int2Num(10), Int2Num(4))
WallDot == Wall("knee_wall", 3, 3, 3, 3, Int2Num(3), Int2Num(3))
WallKey == Wall("constructor", 2, 1, 2, 3, Int2Num(2), Int2Num(2))

\* the files of the one-at-a-time uploads
Files ==
  { File("broken.json", NotJson),
    File("null.json", Json("null", "undefined", Absent, Absent)),
    File("foo.json", Json("object", "undefined", Absent, Absent)),
    File("list.json", Json("array", "undefined", Absent, Absent)),
    File("scalars.json", Json("object", "undefined", Scalar, Scalar)),
    File("empty.json", Json("object", "p0", Arr(<<>>), Absent)),
    File("roof.json", Json("object", "p1", Arr(<<RoofPanel, Ridge>>), Absent)),
    File("nosettings.json", Json("object", "p2",
           Arr(<<RoofPanel, Rec("eave_length", FALSE, Arr(<<Pt(0, 0), Pt(240, 0)>>))>>),
           Absent)),
    File("nopoints.json", Json("object", "p3",
           Arr(<<Rec("roof_system", TRUE, Absent), Ridge>>), Absent)),
    File("degenerate.json", Json("object", "p4",
           Arr(<<Rec("hip_length", TRUE, Arr(<<Pt(0, 0)>>)),
                 Rec("hip_length", TRUE, Arr(<<Pt(12, 12), Pt(12, 12)>>)),
                 Rec("gable_length", TRUE, Arr(<<>>)),
                 Ridge>>), Absent)),
    File("walls.json", Json("object", "undefined", Absent, Arr(<<WallA, WallB>>))),
    File("dot.json", Json("object", "undefined", Absent, Arr(<<WallDot>>))),
    File("nocenter.json", Json("object", "undefined", Absent,
           Arr(<<WallA, NoCenter(WallB)>>))),
    File("nowalls.json", Json("object", "undefined", Absent, Arr(<<>>))),
    File("both.json", Json("object", "p5", Arr(<<Ridge>>), Arr(<<WallA>>))),
    File("protokey.json", Json("object", "p6",
           Arr(<<Rec("constructor", TRUE, Arr(<<Pt(0, 0), Pt(240, 0), Pt(240, 120)>>)),
                 Rec("__proto__", TRUE, Arr(<<Pt(0, 60), Pt(120, 60)>>))>>), Absent)),
    File("protowall.json", Json("object", "undefined", Absent,
           Arr(<<WallA, WallKey, WallB>>))),
    File("flip.json", Json("object", "p7",
           Arr(<<Rec("hip_length", TRUE,
                     Arr(<< <<Rat(6, 1000), Int2Num(7)>>, <<Rat(18, 1000), Int2Num(7)>> >>))>>),
           Absent)) }

----------------------------------------------------------------------------
(* State machine *)

NoneDone ==
  [id |-> 0, how |-> "none", file |-> File("", NotJson), before |-> <<>>,
   info |-> InitialStatus]

Init ==
  /\ buildingGroup = <<>>
  /\ fileInfo = InitialStatus
  /\ pending = {}
  /\ fired = 0
  /\ latest = File("", NotJson)
  /\ lastDone = NoneDone
  /\ transforms = 0

\* lines 136-144: a change event with a selected file runs the handler up to
\* `await file.text()`
Upload(f, maxFired, maxPending) ==
  /\ fired < maxFired
  /\ Cardinality(pending) < maxPending
  /\ fired' = fired + 1
  /\ fileInfo' = LoadingStatus(f.name)
  /\ pending' = pending \cup {[id |-> fired + 1, file |-> f]}
  /\ latest' = f
  /\ UNCHANGED <<buildingGroup, lastDone, transforms>>

\* line 138: a change event with no selected file returns at once
ChangeNoFile == UNCHANGED vars

\* handler h runs to its end with outcome r
Complete(h, how, r) ==
  /\ buildingGroup' = r.group
  /\ fileInfo' = r.fileInfo
  /\ pending' = pending \ {h}
  /\ lastDone' = [id |-> h.id, how |-> how, file |-> h.file,
                  before |-> buildingGroup, info |-> r.fileInfo]
  /\ transforms' = IF how = "resumed" /\ RunsTransform(h.file) THEN h.id ELSE transforms
  /\ UNCHANGED <<fired, latest>>

\* lines 144-158: the read of handler h resolves and the handler runs to its end
Resume(h) ==
  \E r \in {resumeUpload(h.file, buildingGroup, fileInfo, h.id)} :
    Complete(h, "resumed", r)

\* lines 144, 155-158: the read of handler h rejects and the catch block runs
ReadFail(h) ==
  \E r \in {catchBlock([group |-> buildingGroup, fileInfo |-> fileInfo, threw |-> TRUE])} :
    Complete(h, "readfail", r)

\* the files of the overlapping uploads
OverlapFiles ==
  { f \in Files : f.name \in {"broken.json", "foo.json", "empty.json", "roof.json",
                              "nosettings.json", "walls.json", "nocenter.json",
                              "protowall.json"} }

UploadFile == \E f \in OverlapFiles : Upload(f, MaxUploads, MaxPending)
ResumeHandler == \E h \in pending : Resume(h)
RejectRead == \E h \in pending : ReadFail(h)

\* uploads whose reads may overlap and complete in any order
Next == UploadFile \/ ChangeNoFile \/ ResumeHandler \/ RejectRead

Spec == Init /\ [][Next]_vars

\* uploads of any file, each finished before the next is fired
UploadNext == \E f \in Files : Upload(f, MaxSeqUploads, 1)

NextSeq == UploadNext \/ ChangeNoFile \/ ResumeHandler \/ RejectRead

SpecSeq == Init /\ [][NextSeq]_vars

----------------------------------------------------------------------------
(* One upload of a legacy document: walls with corners on a small grid,    *)
(* each with its centre at the middle of its bbox or at its first corner,  *)
(* and walls with coordinates at the ends of the range of a number.        *)

CornerX == {0, 10}
CornerY == {0, 4}

GridWalls ==
  { Wall("perimeter_wall", x1, y1, x2, y2, c[1], c[2]) :
      <<x1, y1, x2, y2, c>> \in
        { <<x1, y1, x2, y2, c>> \in
            CornerX \X CornerY \X CornerX \X CornerY \X
            { <<Rat(a, 2), Rat(b, 2)>> : a \in 0..20, b \in 0..8 } :
            \/ c = <<Rat(x1 + x2, 2), Rat(y1 + y2, 2)>>
            \/ c = <<Int2Num(x1), Int2Num(y1)>> } }

\* the numbers that the JSON texts 1e-320, 5e-321, 8.98846567431158e307 and
\* 1.348269851146737e308 denote: 2024 * 2^-1074, 1012 * 2^-1074, 2^1023 and
\* 3 * 2^1022
Tiny == Fin(1, <<253>>, -1071)
HalfTiny == Fin(1, <<253>>, -1072)
Huge == Fin(1, <<1>>, 1023)
Huger == Fin(1, <<3>>, 1022)

\* a wall from x = 0 to x = 1e-320 with its centre in the middle
WallTiny == NumWall("perimeter_wall", Zero(1), Zero(1), Tiny, Zero(1), HalfTiny, Zero(1))

\* a wall of no width and no depth at (x, 0)
WallPoint(x) == NumWall("perimeter_wall", x, Zero(1), x, Zero(1), x, Zero(1))

EdgeFiles ==
  { File("tiny.json", Json("object", "undefined", Absent, Arr(<<WallTiny>>))),
    File("huge.json", Json("object", "undefined", Absent,
           Arr(<<WallPoint(Huge), WallPoint(Huger)>>))) }

OldFiles ==
  { File("walls.json", Json("object", "undefined", Absent, Arr(ws))) :
      ws \in UNION { [1..n -> GridWalls] : n \in 1..MaxWalls } }
  \cup EdgeFiles

UploadOld == \E f \in OldFiles : Upload(f, 1, 1)

NextOld == UploadOld \/ ResumeHandler

SpecOld == Init /\ [][NextOld]_vars

----------------------------------------------------------------------------
(* One upload of a current-schema document: a record with any point list   *)
(* over three points (two of them 0.01 apart), between further records     *)
(* that move the bounds.                                                   *)

Points == {Pt(0, 0), <<Rat(1, 100), Int2Num(0)>>, Pt(12, 6)}

PointLists == UNION { [1..n -> Points] : n \in 0..MaxPts }

SubjectRecs ==
  { Rec(mt, TRUE, Arr(pts)) :
      mt \in {"ridge_length", "hip_length", "", "constructor"}, pts \in PointLists }

ContextRecs == { RoofPanel, Rec("eave_length", TRUE, Arr(<<Pt(-36, 36)>>)) }

ContextSeqs == UNION { [1..n -> ContextRecs] : n \in 0..MaxContext }

NewFiles ==
  { File("estimate.json", Json("object", "p1", Arr(pre \o <<rec>> \o post), Absent)) :
      pre \in ContextSeqs, rec \in SubjectRecs, post \in ContextSeqs }

UploadNew == \E f \in NewFiles : Upload(f, 1, 1)

NextNew == UploadNew \/ ResumeHandler

SpecNew == Init /\ [][NextNew]_vars

----------------------------------------------------------------------------
(* Properties.  lastDone describes the handler that ran to its end last:   *)
(* its file, how it resumed, the group it found (before) and the status it *)
(* left (info).                                                            *)

Resumed == lastDone.how = "resumed"
DoneParse == JSONparse(lastDone.file.text)
DoneData == JSONparse(lastDone.file.text).value
LoadingMsg == LoadingStatus("").msg
ProjectMsg == ProjectStatus("", 0).msg
AppliedMsg == AppliedStatus("").msg

\* the group without the history tags of its objects
Untag(g) == [i \in 1..Len(g) |-> [g[i] EXCEPT !.by = 0]]

\* what the handler of a file leaves when it runs alone on an empty scene
Alone(file) == resumeUpload(file, <<>>, LoadingStatus(file.name), 0)

\* a valid file: one whose handler ends with an applied / records-loaded status
ValidFile(file) == Alone(file).fileInfo.msg \in {ProjectMsg, AppliedMsg}

\* C1: an upload whose text fails JSON parsing leaves the building group
\* exactly as it found it, and the status it writes is the parse-error
\* message (which stays until a later upload writes its loading message).
C1_ParseFailureKeepsScene ==
  (Resumed /\ DoneParse.threw) =>
    /\ buildingGroup = lastDone.before
    /\ lastDone.info = ParseErrorStatus
    /\ fileInfo \in {ParseErrorStatus, LoadingStatus(latest.name)}

C1_Witness ==
  /\ Resumed /\ DoneParse.threw
  /\ Len(buildingGroup) > 0
  /\ fileInfo = ParseErrorStatus

\* C2: between handler runs every live object was inserted by the most
\* recent transform that ran: clearScene leaves the group empty, so no
\* object of an earlier transform survives the clearScene of a later one.
C2_OnlyLatestTransformLive ==
  \A i \in 1..Len(buildingGroup) : buildingGroup[i].by = transforms

\* C3: when two uploads of valid files have both finished, the live
\* primitives and the status are those of the upload fired second, whatever
\* the order in which the two reads completed.
C3_LaterUploadWins ==
  (/\ fired = 2 /\ pending = {} /\ Resumed
   /\ ValidFile(latest) /\ ValidFile(lastDone.file)) =>
    /\ Untag(buildingGroup) = Alone(latest).group
    /\ fileInfo = Alone(latest).fileInfo

\* C4: an upload that ends in an error status leaves the group either as it
\* found it or empty, never a part of the new upload's primitives.
C4_ErrorLeavesPriorOrEmpty ==
  (lastDone.how # "none" /\ lastDone.info \in {ParseErrorStatus, UnrecognisedStatus}) =>
    (buildingGroup = lastDone.before \/ buildingGroup = <<>>)

\* C5: a parsed value with neither a `records` array nor a `walls` array is
\* Unrecognized: nothing is synthesized and the status is the
\* unrecognised-format message; when both fields are arrays, `records` wins.
C5_NeitherFieldIsUnrecognised ==
  /\ (Resumed /\ ~DoneParse.threw
      /\ ~IsArray(DoneData.records) /\ ~IsArray(DoneData.walls)) =>
       (lastDone.info = UnrecognisedStatus /\ buildingGroup = lastDone.before)
  /\ (Resumed /\ ~DoneParse.threw
      /\ IsArray(DoneData.records) /\ IsArray(DoneData.walls)) =>
       (\A i \in 1..Len(buildingGroup) : buildingGroup[i].prim # "Box")

\* C6: a current-schema upload whose records are well formed but for
\* degenerate point lists (missing, 0 or 1 points, coincident points) ends
\* with the records-loaded status, not an error.
C6_DegenerateRecordsAreSkipped ==
  (/\ Resumed /\ ~DoneParse.threw
   /\ detect(DoneData) = "CurrentRecords"
   /\ Len(DoneData.records.items) > 0
   /\ \A i \in 1..Len(DoneData.records.items) : DoneData.records.items[i].settings) =>
    lastDone.info = ProjectStatus(DoneData.project_id, Len(DoneData.records.items))

\* C10: once every upload has finished, the status is no longer a loading
\* message.
C10_TerminalStatus ==
  (pending = {} /\ fired > 0) => fileInfo.msg # LoadingMsg

----------------------------------------------------------------------------
(* Properties of renderOldFormat, under SpecOld *)

DoneWalls == DoneData.walls.items
DoneSize == sizeOld(wallBounds(DoneWalls, 1, EmptyBounds))
LegacyDone == Resumed /\ detect(DoneData) = "LegacyWalls" /\ Len(DoneWalls) > 0

FiniteBox(o) ==
  /\ IsFinite(o.width) /\ IsFinite(o.depth)
  /\ \A k \in 1..3 : IsFinite(o.position[k])

\* C7: for a non-empty wall set of bounding extent 0 the scale factor is
\* finite and non-zero and every box has finite width, depth and position,
\* with width and depth at least 0.1.
C7_ZeroExtentStaysFinite ==
  (LegacyDone /\ IsZero(DoneSize)) =>
    /\ IsFinite(scaleOld(DoneSize)) /\ ~IsZero(scaleOld(DoneSize))
    /\ Len(buildingGroup) = Len(DoneWalls)
    /\ \A i \in 1..Len(buildingGroup) :
         /\ FiniteBox(buildingGroup[i])
         /\ LessEq(Rat(1, 10), buildingGroup[i].width)
         /\ LessEq(Rat(1, 10), buildingGroup[i].depth)

Half(a) == Div(a, Int2Num(2))

\* the extent of the bounding box of boxes i and j along X and along Z
SpanX(g, i, j) ==
  Sub(Add(g[i].position[1], Half(g[i].width)), Sub(g[j].position[1], Half(g[j].width)))
SpanZ(g, i, j) ==
  Sub(Add(g[i].position[3], Half(g[i].depth)), Sub(g[j].position[3], Half(g[j].depth)))

\* the bounding box over all boxes of g has no horizontal side longer than lim
FitsWithin(g, lim) ==
  \A i \in 1..Len(g), j \in 1..Len(g) :
    LessEq(SpanX(g, i, j), lim) /\ LessEq(SpanZ(g, i, j), lim)

\* C9: for a wall set of non-zero extent the bounding box over the
\* synthesized boxes has a longer horizontal side of at most 50.
C9_BoxesFitTargetExtent ==
  (LegacyDone /\ Truthy(DoneSize)) => FitsWithin(buildingGroup, Int2Num(50))

----------------------------------------------------------------------------
(* Properties of renderNewFormat, under SpecNew *)

DoneRecords == DoneData.records.items
RecPts(rec) == rec.coordinates_real_world.items

Coords(records, axis) ==
  UNION { { RecPts(records[i])[k][axis] : k \in 1..Len(RecPts(records[i])) } :
          i \in 1..Len(records) }

Least(S) == CHOOSE x \in S : \A y \in S : LessEq(x, y)
Greatest(S) == CHOOSE x \in S : \A y \in S : LessEq(y, x)
Middle(S) == IF S = {} THEN NaN ELSE Half(Add(Least(S), Greatest(S)))

\* subtract the centre, then multiply by 1/12
Normalised(p, c) ==
  <<Mul(Sub(p[1], c[1]), Rat(1, 12)), Mul(Sub(p[2], c[2]), Rat(1, 12))>>

Distance(a, b) ==
  MathSqrt(Add(Mul(Sub(b[1], a[1]), Sub(b[1], a[1])), Mul(Sub(b[2], a[2]), Sub(b[2], a[2]))))

CategoryElevation(mt) ==
  CASE mt = "roof_system"   -> Int2Num(0)
    [] mt = "eave_length"   -> Rat(1, 20)
    [] mt = "valley_length" -> Neg(Rat(1, 20))
    [] mt = "hip_length"    -> Rat(3, 20)
    [] mt = "ridge_length"  -> Rat(3, 10)
    [] mt = "gable_length"  -> Rat(1, 10)
    [] OTHER                -> Int2Num(0)

\* the primitives the claim expects of one record
ExpectedOf(rec, c) ==
  LET n == Len(RecPts(rec))
      q == [i \in 1..n |-> Normalised(RecPts(rec)[i], c)]
  IN  IF n >= 3
        THEN << [prim |-> "Polygon", pts |-> q, y |-> CategoryElevation(rec.materialType),
                 thickness |-> Int2Num(0), height |-> Int2Num(0)] >>
      ELSE IF n = 2 /\ ~Less(Distance(q[1], q[2]), Rat(1, 1000))
        THEN << [prim |-> "LineSegment", pts |-> q, y |-> CategoryElevation(rec.materialType),
                 thickness |-> IF rec.materialType = "ridge_length"
                                 THEN Rat(1, 4) ELSE Rat(3, 20),
                 height |-> IF rec.materialType = "ridge_length"
                              THEN Rat(3, 10) ELSE Rat(3, 25)] >>
      ELSE << >>

RECURSIVE ExpectedFrom(_, _, _)
ExpectedFrom(records, i, c) ==
  IF i > Len(records) THEN << >>
  ELSE ExpectedOf(records[i], c) \o ExpectedFrom(records, i + 1, c)

\* what a live polygon or line segment is, in the terms of the claim
Described(o) ==
  IF o.prim = "Polygon"
    THEN [prim |-> "Polygon", pts |-> o.shape, y |-> o.y,
          thickness |-> Int2Num(0), height |-> Int2Num(0)]
    ELSE [prim |-> "LineSegment",
          pts |-> << <<o.from[1], o.from[3]>>, <<o.to[1], o.to[3]>> >>,
          y |-> o.from[2], thickness |-> o.thickness, height |-> o.height]

IsPrimitive(o) == o.prim \in {"Polygon", "LineSegment"}

Primitives(g) ==
  [i \in 1..Len(SelectSeq(g, IsPrimitive)) |-> Described(SelectSeq(g, IsPrimitive)[i])]

\* C8: the primitives of a current-schema upload are, record by record, one
\* Polygon over the normalised points at the category's elevation for 3 or
\* more points, one LineSegment (0.25 / 0.3 for "ridge_length", 0.15 / 0.12
\* otherwise) for 2 points unless they are closer than 0.001 once
\* normalised, and nothing for 0 or 1 points; a category that the elevation
\* table does not list is at the default elevation 0.  (A Polygon is its
\* mesh followed by the wireframe border of the same footprint.)
C8_PrimitivesByPointCount ==
  (Resumed /\ detect(DoneData) = "CurrentRecords" /\ lastDone.info.msg = ProjectMsg) =>
    /\ Primitives(buildingGroup) =
         ExpectedFrom(DoneRecords, 1,
                      <<Middle(Coords(DoneRecords, 1)), Middle(Coords(DoneRecords, 2))>>)
    /\ \A i \in 1..Len(buildingGroup) :
         /\ buildingGroup[i].prim = "Polygon" =>
              /\ i < Len(buildingGroup)
              /\ buildingGroup[i + 1].prim = "PolygonEdges"
              /\ buildingGroup[i + 1].shape = buildingGroup[i].shape
         /\ buildingGroup[i].prim = "PolygonEdges" =>
              (i > 1 /\ buildingGroup[i - 1].prim = "Polygon")

============================================================================
